---- MODULE Spec2Model ----
(***************************************************************************)
(* Model of api/main.py: the GET / endpoint papers(), the query builder    *)
(* build_arxiv_query, the result normalizer get_arxiv_full_metadata and    *)
(* the part of generate_styled_html that depends on the request.           *)
(* The docstring of papers() is not indented in the source as it stands;   *)
(* the handler is taken to be the body that follows it.                    *)
(*                                                                         *)
(* Python strings are TLC strings; a character is a string of length 1.    *)
(* A Python value that may be None is a sequence of length 0 (None) or 1.  *)
(* A Python call that may raise is a record whose field "raised" is "" on  *)
(* a normal return and the exception's name otherwise.                     *)
(***************************************************************************)
EXTENDS Integers, Sequences, FiniteSets, TLC

VARIABLES
    pc,                \* "idle", "handling" (request parsed), "done" (papers() ended)
    query,             \* the request's query parameter
    cat,               \* the request's cat parameters, in the order given
    upstream,          \* what the arXiv service does for this request
    searches,          \* the arxiv.Search calls issued while handling this request
    response,          \* how papers() ended: a returned page or a raised exception
    ARXIV_CATEGORIES,  \* the module-level catalog dict
    remembered         \* history variable: one earlier request and its response

vars == <<pc, query, cat, upstream, searches, response, ARXIV_CATEGORIES, remembered>>

----------------------------------------------------------------------------
(* Bounds of the model *)

MaxQueryLen == 2
MaxCats == 2
MaxAuthors == 3
MaxStream == 3
MaxExcess == 1

(* Program constant *)
MAX_PAPERS == 50

----------------------------------------------------------------------------
(* Python built-ins used by the program *)

None == <<>>

Some(x) == <<x>>

Min(a, b) == IF a <= b THEN a ELSE b

CharAt(s, i) == SubSeq(s, i, i)

Whitespace == {" ", "\t", "\n", "\r", "\f"}

\* str.strip(): remove leading and trailing whitespace
strip(s) ==
    LET keep == {i \in 1..Len(s) : CharAt(s, i) \notin Whitespace}
    IN  IF keep = {} THEN ""
        ELSE LET first == CHOOSE i \in keep : \A j \in keep : i <= j
                 last == CHOOSE i \in keep : \A j \in keep : j <= i
             IN  SubSeq(s, first, last)

RECURSIVE join(_, _)
\* sep.join(items)
join(sep, items) ==
    IF items = <<>> THEN ""
    ELSE IF Len(items) = 1 THEN items[1]
    ELSE items[1] \o sep \o join(sep, Tail(items))

\* where sep occurs in s
occurrences(s, sep) ==
    {i \in 1..(Len(s) - Len(sep) + 1) : SubSeq(s, i, i + Len(sep) - 1) = sep}

RECURSIVE replace(_, _, _)
\* str.replace(old, new) for a non-empty old: every non-overlapping
\* occurrence, scanning from the left
replace(s, old, new) ==
    LET hits == occurrences(s, old)
    IN  IF hits = {} THEN s
        ELSE LET i == CHOOSE h \in hits : \A g \in hits : h <= g
             IN  SubSeq(s, 1, i - 1) \o new
                 \o replace(SubSeq(s, i + Len(old), Len(s)), old, new)

RECURSIVE split_last(_, _)
\* str.split(sep)[-1] for a non-empty sep: what follows the last of the
\* non-overlapping occurrences, scanning from the left
split_last(s, sep) ==
    LET hits == occurrences(s, sep)
    IN  IF hits = {} THEN s
        ELSE LET i == CHOOSE h \in hits : \A g \in hits : h <= g
             IN  split_last(SubSeq(s, i + Len(sep), Len(s)), sep)

html_escape_char(c) ==
    CASE c = "&" -> "&amp;"
      [] c = "<" -> "&lt;"
      [] c = ">" -> "&gt;"
      [] c = "\"" -> "&quot;"
      [] c = "'" -> "&#x27;"
      [] OTHER -> c

RECURSIVE html_escape(_)
\* html.escape(s), quote=True
html_escape(s) ==
    IF s = "" THEN ""
    ELSE html_escape_char(CharAt(s, 1)) \o html_escape(SubSeq(s, 2, Len(s)))

MonthName ==
    << "January", "February", "March", "April", "May", "June", "July",
       "August", "September", "October", "November", "December" >>

Pad2(n) == IF n < 10 THEN "0" \o ToString(n) ELSE ToString(n)

\* datetime.strftime("%B %d, %Y"), for years of four digits
strftime(dt) == MonthName[dt.m] \o " " \o Pad2(dt.d) \o ", " \o ToString(dt.y)

\* datetime < datetime
datetime_lt(a, b) ==
    \/ a.y < b.y
    \/ a.y = b.y /\ a.m < b.m
    \/ a.y = b.y /\ a.m = b.m /\ a.d < b.d
    \/ a.y = b.y /\ a.m = b.m /\ a.d = b.d /\ a.h < b.h

----------------------------------------------------------------------------
(* build_arxiv_query *)

RECURSIVE cat_terms(_)
\* [f"cat:{c}" for c in categories]
cat_terms(categories) ==
    IF categories = <<>> THEN <<>>
    ELSE <<"cat:" \o Head(categories)>> \o cat_terms(Tail(categories))

\* build_arxiv_query, had it trimmed the text when no category is given
build_arxiv_query_trimmed(text_query, categories) ==
    IF categories = <<>> THEN strip(text_query)
    ELSE "(" \o join(" OR ", cat_terms(categories)) \o ") AND all:" \o text_query

RECURSIVE unique(_)
\* the items with later repetitions of an item removed
unique(items) ==
    IF items = <<>> THEN <<>>
    ELSE LET front == unique(SubSeq(items, 1, Len(items) - 1))
             last == items[Len(items)]
         IN  IF \E i \in 1..Len(front) : front[i] = last THEN front
             ELSE Append(front, last)

\* build_arxiv_query, had it dropped repeated codes
build_arxiv_query_unique(text_query, categories) ==
    IF categories = <<>> THEN text_query
    ELSE "(" \o join(" OR ", cat_terms(unique(categories))) \o ") AND all:" \o text_query

build_arxiv_query(text_query, categories) ==
    IF categories = <<>> THEN text_query
    ELSE "(" \o join(" OR ", cat_terms(categories)) \o ") AND all:" \o text_query

----------------------------------------------------------------------------
(* get_arxiv_full_metadata *)

\* the search, had it asked for one result more
arxiv_Search_plus_one(final_query, max_results) ==
    [query |-> final_query, max_results |-> max_results + 1,
     sort_by |-> "relevance", sort_order |-> "descending"]

\* arxiv.Search(query=..., max_results=..., sort_by=Relevance, sort_order=Descending)
arxiv_Search(final_query, max_results) ==
    [query |-> final_query, max_results |-> max_results,
     sort_by |-> "relevance", sort_order |-> "descending"]

\* client.results(search): the records the service matches, in relevance
\* order and at most search.max_results of them; when the service fails
\* after up.failAt records the generator raises there.
client_results(search, up) ==
    LET n == Min(Len(up.avail), search.max_results)
    IN  IF up.fails /\ up.failAt <= n
        THEN [items |-> SubSeq(up.avail, 1, up.failAt), raised |-> "arxiv.HTTPError"]
        ELSE [items |-> SubSeq(up.avail, 1, n), raised |-> ""]

\* the collapsing, had it left out authors.pop()
collapse_authors_keep_last(authors) ==
    IF Len(authors) > 1
    THEN [authors EXCEPT ![Len(authors) - 1] = @ \o " & " \o authors[Len(authors)]]
    ELSE authors

\* authors[-2] += " & " + authors[-1]; authors.pop()
collapse_authors(authors) ==
    IF Len(authors) > 1
    THEN SubSeq([authors EXCEPT ![Len(authors) - 1] = @ \o " & " \o authors[Len(authors)]],
                1, Len(authors) - 1)
    ELSE authors

\* the body of the for loop, for one result
normalize_result(result) ==
    IF result.authors = None THEN [raised |-> "TypeError", paper |-> None]
    ELSE IF result.title = None THEN [raised |-> "AttributeError", paper |-> None]
    ELSE IF result.summary = None THEN [raised |-> "AttributeError", paper |-> None]
    ELSE [raised |-> "",
          paper |-> Some(
            [Title |-> strip(result.title[1]),
             Authors |-> join(", ", collapse_authors(result.authors[1])),
             Abstract |-> strip(result.summary[1]),
             URL |-> replace(replace(result.entry_id, "http:", "https:"), "abs", "pdf"),
             DOI |-> IF result.doi = None \/ result.doi = Some("")
                     THEN split_last(result.entry_id, "abs/")
                     ELSE result.doi[1],
             Categories |-> join(", ", result.categories),
             Published |-> result.published])]

\* for result in client.results(search): ... papers.append({...})
\* The loop ends at the first result whose processing raises, or where the
\* stream itself raises.
for_results(stream) ==
    LET n == Len(stream.items)
        each == [i \in 1..n |-> normalize_result(stream.items[i])] \o <<>>
        bad == {i \in 1..n : each[i].raised # ""}
    IN  IF bad = {}
        THEN [raised |-> stream.raised, papers |-> [i \in 1..n |-> each[i].paper[1]]]
        ELSE LET first == CHOOSE i \in bad : \A j \in bad : i <= j
             IN  [raised |-> each[first].raised,
                  papers |-> [i \in 1..(first - 1) |-> each[i].paper[1]]]

\* the key comparison of papers.sort: datetime against datetime only
key_comparable(a, b) == a # None /\ b # None

\* a comparison sort of two or more items compares every item with some
\* other one, and the order it finds links all of them: it raises TypeError
\* exactly when some two keys cannot be compared.
sort_raises(papers) ==
    /\ Len(papers) >= 2
    /\ \E i, j \in 1..Len(papers) :
          i # j /\ ~key_comparable(papers[i].Published, papers[j].Published)

\* list.sort(key=lambda x: x["Published"], reverse=reverse) of two or more
\* papers whose keys compare: a stable sort, so a paper is put before
\* another when its key goes first, or when neither key is smaller and it
\* was given first; each paper takes the place after those put before it
list_sort(papers, reverse) ==
    LET n == Len(papers)
        key(i) == papers[i].Published[1]
        goes_first(i, j) ==
            IF reverse THEN datetime_lt(key(j), key(i)) ELSE datetime_lt(key(i), key(j))
        comes_first(i, j) ==
            \/ goes_first(i, j)
            \/ ~goes_first(j, i) /\ i < j
        place == [i \in 1..n |->
                    1 + Cardinality({j \in (1..n) \ {i} : comes_first(j, i)})] \o <<>>
    IN  [k \in 1..n |-> papers[CHOOSE i \in 1..n : place[i] = k]] \o <<>>

\* the sort, had it left out reverse=True
sort_ascending(papers) ==
    IF Len(papers) < 2 THEN papers ELSE list_sort(papers, FALSE)

\* papers.sort(key=lambda x: x["Published"], reverse=True), when no
\* comparison raises; fewer than two papers are not compared at all
sort_by_published(papers) ==
    IF Len(papers) < 2 THEN papers ELSE list_sort(papers, TRUE)

\* p["Published"] = p["Published"].strftime(...), "Unknown" on an exception
format_published(p) ==
    [p EXCEPT !.Published = IF @ = None THEN "Unknown" ELSE strftime(@[1])]

get_arxiv_full_metadata(query_term, categories, max_results, up) ==
    LET final_query == build_arxiv_query(query_term, categories)
        search == arxiv_Search(final_query, max_results)
        loop == for_results(client_results(search, up))
    IN  IF loop.raised # ""
        THEN [raised |-> loop.raised, papers |-> <<>>, searches |-> <<search>>]
        ELSE IF sort_raises(loop.papers)
        THEN [raised |-> "TypeError", papers |-> <<>>, searches |-> <<search>>]
        ELSE LET sorted == sort_by_published(loop.papers)
             IN  [raised |-> "",
                  papers |-> [i \in 1..Len(sorted) |-> format_published(sorted[i])],
                  searches |-> <<search>>]

----------------------------------------------------------------------------
(* generate_styled_html and the endpoint *)

\* ARXIV_CATEGORIES as the module sets it: the domains in order, each with
\* its category codes in order (the labels are left out)
CATALOG ==
    << [domain |-> "Computer Science",
        codes |-> <<"cs.AI", "cs.LG", "cs.CV", "cs.CL", "cs.RO", "cs.DB", "cs.DS",
                    "cs.CR", "cs.OS", "cs.SE">>],
       [domain |-> "Mathematics",
        codes |-> <<"math.CO", "math.NT", "math.AG", "math.PR", "math.OC", "math.ST">>],
       [domain |-> "Statistics",
        codes |-> <<"stat.ML", "stat.TH", "stat.ME", "stat.AP">>],
       [domain |-> "Physics",
        codes |-> <<"quant-ph", "hep-th", "cond-mat.stat-mech", "astro-ph.CO", "gr-qc">>],
       [domain |-> "Quantitative Biology",
        codes |-> <<"q-bio.QM", "q-bio.NC", "q-bio.GN">>],
       [domain |-> "Quantitative Finance",
        codes |-> <<"q-fin.MF", "q-fin.ST", "q-fin.PR", "q-fin.RM">>],
       [domain |-> "Economics",
        codes |-> <<"econ.EM", "econ.TH", "econ.GN">>],
       [domain |-> "Electrical Engineering & Systems",
        codes |-> <<"eess.SP", "eess.IV", "eess.SY", "eess.AS">>] >>

\* the checkboxes of one domain: checked = "checked" if code in selected_cats
checkboxes(codes, selected_cats) ==
    [i \in 1..Len(codes) |->
        [value |-> codes[i],
         checked |-> \E k \in 1..Len(selected_cats) : selected_cats[k] = codes[i]]]

\* the page, as the parts of it that depend on the arguments and the catalog
generate_styled_html(papers, search_query, selected_cats) ==
    LET safe_query == html_escape(search_query)
    IN  [value |-> safe_query,
         domains |-> [d \in 1..Len(ARXIV_CATEGORIES) |->
                        [summary |-> ARXIV_CATEGORIES[d].domain,
                         boxes |-> checkboxes(ARXIV_CATEGORIES[d].codes, selected_cats)]],
         heading |-> IF search_query # "" THEN Some(safe_query) ELSE None,
         cards |-> IF search_query # "" THEN papers ELSE <<>>]

catalog_codes(catalog) ==
    UNION {{catalog[d].codes[i] : i \in 1..Len(catalog[d].codes)} : d \in 1..Len(catalog)}

\* the catalog, had the handler added the selected codes it does not know
catalog_learning_codes(selected_cats) ==
    LET unknown == unique(SelectSeq(selected_cats,
                                    LAMBDA c : c \notin catalog_codes(ARXIV_CATEGORIES)))
    IN  IF unknown = <<>> THEN ARXIV_CATEGORIES
        ELSE Append(ARXIV_CATEGORIES, [domain |-> "Other", codes |-> unknown])

\* ARXIV_CATEGORIES after a request: the handler and the functions it calls
\* only read the catalog
catalog_after_request(selected_cats) == ARXIV_CATEGORIES

\* the test of line 513, had the handler searched for every request
should_search_always(q) == TRUE

\* if query.strip():
should_search(q) == strip(q) # ""

\* the body of papers(): what it returns or raises, and the searches it issued
papers_body(q, c, up) ==
    IF should_search(q)
    THEN LET r == get_arxiv_full_metadata(q, c, MAX_PAPERS, up)
         IN  IF r.raised # ""
             THEN [response |-> [kind |-> "raised", exception |-> r.raised],
                   searches |-> r.searches]
             ELSE [response |-> [kind |-> "returned", status |-> 200,
                                 page |-> generate_styled_html(r.papers, q, c)],
                   searches |-> r.searches]
    ELSE [response |-> [kind |-> "returned", status |-> 200,
                        page |-> generate_styled_html(<<>>, q, c)],
          searches |-> <<>>]

----------------------------------------------------------------------------
(* The state machine *)

NoUpstream == [avail |-> <<>>, fails |-> FALSE, failAt |-> 0]

NoResponse == [kind |-> "none"]

NoMemory == [set |-> FALSE]

Init ==
    /\ pc = "idle"
    /\ query = ""
    /\ cat = <<>>
    /\ upstream = NoUpstream
    /\ searches = <<>>
    /\ response = NoResponse
    /\ ARXIV_CATEGORIES = CATALOG
    /\ remembered = NoMemory

\* the framework parses a GET /: query (default "") and the cat values
Receive(Qs, Cs) ==
    /\ pc = "idle"
    /\ \E q \in Qs, c \in Cs :
          /\ query' = q
          /\ cat' = c
    /\ pc' = "handling"
    /\ UNCHANGED <<upstream, searches, response, ARXIV_CATEGORIES, remembered>>

\* the framework calls papers(query, cat); the arXiv service behaves as one
\* of Us when the handler consults it
papers(Us) ==
    /\ pc = "handling"
    /\ \E up \in Us :
          LET used == IF should_search(query) THEN up ELSE NoUpstream
              end == papers_body(query, cat, used)
          IN  /\ upstream' = used
              /\ searches' = end.searches
              /\ response' = end.response
    /\ ARXIV_CATEGORIES' = catalog_after_request(cat)
    /\ pc' = "done"
    /\ UNCHANGED <<query, cat, remembered>>

\* the framework sends the response (or its own error reply when papers()
\* raised) and the request's locals are gone; with remember, the history
\* variable may take this request
Finish(remember) ==
    /\ pc = "done"
    /\ pc' = "idle"
    /\ query' = ""
    /\ cat' = <<>>
    /\ upstream' = NoUpstream
    /\ searches' = <<>>
    /\ response' = NoResponse
    /\ remembered' \in
          IF remember
          THEN {remembered,
                [set |-> TRUE, query |-> query, cat |-> cat,
                 upstream |-> upstream, response |-> response]}
          ELSE {remembered}
    /\ UNCHANGED ARXIV_CATEGORIES

----------------------------------------------------------------------------
(* The inputs explored *)

Alphabet == {"x", " ", "<"}

RECURSIVE Strings(_)
Strings(n) ==
    IF n = 0 THEN {""}
    ELSE LET shorter == Strings(n - 1)
         IN  shorter \cup {s \o ch : s \in shorter, ch \in Alphabet}

\* a catalog code and a code that is not in the catalog
Codes == {"cs.LG", "zz.XX"}

RECURSIVE Lists(_, _)
Lists(S, n) ==
    IF n = 0 THEN {<<>>}
    ELSE LET shorter == Lists(S, n - 1)
         IN  shorter \cup {Append(l, x) : l \in shorter, x \in S}

Queries == Strings(MaxQueryLen)

CatLists == Lists(Codes, MaxCats)

Datetime(y, m, d, h) == [y |-> y, m |-> m, d |-> d, h |-> h]

Dates == {Datetime(2024, 1, 1, 0), Datetime(2024, 6, 1, 0), Datetime(2023, 3, 3, 12)}

Names == <<"A", "B", "C", "D", "E">>

\* a well-formed record, but for its entry id
Base ==
    [title |-> Some(" T "), authors |-> Some(<<"A", "B">>), summary |-> Some("S\n"),
     doi |-> None, categories |-> <<"cs.LG">>, published |-> Some(Datetime(2024, 1, 1, 0))]

AuthorShapes == {[Base EXCEPT !.authors = Some(SubSeq(Names, 1, n))] : n \in 0..MaxAuthors}

DateShapes == {[Base EXCEPT !.published = Some(d)] : d \in Dates}

WithDoi == [Base EXCEPT !.doi = Some("10.1000/j.1"), !.categories = <<"cs.LG", "stat.ML">>]

WellFormedShapes == AuthorShapes \cup DateShapes \cup {WithDoi}

MalformedShapes ==
    {[Base EXCEPT !.title = None], [Base EXCEPT !.summary = None],
     [Base EXCEPT !.authors = None], [Base EXCEPT !.published = None]}

Shapes == WellFormedShapes \cup MalformedShapes

\* the i-th record of a stream: the shape with the entry id of rank i
entry_id_of(i) == "http://arxiv.org/abs/2401." \o ToString(i)

Result(shape, i) ==
    [title |-> shape.title, authors |-> shape.authors, summary |-> shape.summary,
     entry_id |-> entry_id_of(i), doi |-> shape.doi, categories |-> shape.categories,
     published |-> shape.published]

Stream(shapes) == [i \in 1..Len(shapes) |-> Result(shapes[i], i)]

Succeeding(streams) == {[avail |-> s, fails |-> FALSE, failAt |-> 0] : s \in streams}

Failing(streams) ==
    UNION {{[avail |-> s, fails |-> TRUE, failAt |-> k] : k \in 0..Len(s)} : s \in streams}

\* MAX_PAPERS records and more, with the dates cycling
LongShapes(n) ==
    [i \in 1..n |->
        [Base EXCEPT !.published =
            Some(Datetime(2024, (i % 12) + 1, (i % 3) + 1, 0))]]

LongStreams == {Stream(LongShapes(n)) : n \in MAX_PAPERS..(MAX_PAPERS + MaxExcess)}

ShortStreams == {Stream(l) : l \in Lists({Base, WithDoi}, 1)}

EndpointUpstreams ==
    Succeeding(ShortStreams \cup LongStreams) \cup Failing(ShortStreams)
    \cup {[avail |-> Stream(LongShapes(MAX_PAPERS + MaxExcess)), fails |-> TRUE,
           failAt |-> MAX_PAPERS]}

NormQueries == {"x"}

NormCats == {<<>>}

NormUpstreams == Succeeding({Stream(l) : l \in Lists(Shapes, MaxStream)})

IndepQueries == {"", "x"}

IndepCats == {<<>>, <<"cs.LG">>, <<"zz.XX">>}

IndepUpstreams == Succeeding(ShortStreams) \cup Failing({<<>>})

----------------------------------------------------------------------------
(* The specifications *)

Next ==
    \/ Receive(Queries, CatLists)
    \/ papers(EndpointUpstreams)
    \/ Finish(FALSE)

Spec == Init /\ [][Next]_vars

NextNorm ==
    \/ Receive(NormQueries, NormCats)
    \/ papers(NormUpstreams)
    \/ Finish(FALSE)

SpecNorm == Init /\ [][NextNorm]_vars

NextIndep ==
    \/ Receive(IndepQueries, IndepCats)
    \/ papers(IndepUpstreams)
    \/ Finish(TRUE)

SpecIndep == Init /\ [][NextIndep]_vars


----------------------------------------------------------------------------
(* Vocabulary of the claims *)

Done == pc = "done"

Searched == Done /\ searches # <<>>

Returned == Done /\ response.kind = "returned"

Cards == response.page.cards

\* the records the client handed to the loop for this request
Yielded == client_results(searches[1], upstream).items

UpstreamFailed == Searched /\ client_results(searches[1], upstream).raised # ""

\* the relevance rank (the place in the upstream stream) of a rendered paper
RankOf(card) ==
    CHOOSE i \in 1..Len(upstream.avail) :
        card.URL = "https://arxiv.org/pdf/2401." \o ToString(i)

RawOf(card) == upstream.avail[RankOf(card)]

WellFormed(result) ==
    /\ result.title # None
    /\ result.authors # None
    /\ result.summary # None

Dated(result) == result.published # None

----------------------------------------------------------------------------
(* C1: when the upstream search fails while the result stream is consumed,
   papers() still returns a response, a 200 page without paper entries or a
   500, and raises nothing. The code does not do this: the statement below
   is violated. *)
C1_UpstreamFailureAnswered ==
    UpstreamFailed =>
        /\ response.kind = "returned"
        /\ \/ response.status = 200 /\ Cards = <<>>
           \/ response.status = 500

(* C2: a request whose query is empty, whatever its cat values, gets a 200
   page with no paper entries, and no search is issued for it. *)
C2_EmptyQueryNoSearch ==
    (Done /\ query = "") =>
        /\ response.kind = "returned"
        /\ response.status = 200
        /\ Cards = <<>>
        /\ searches = <<>>

C2_Witness ==
    /\ Returned
    /\ query = ""
    /\ cat = <<"zz.XX", "cs.LG">>
    /\ searches = <<>>

RECURSIVE C3_Terms(_, _)
\* "cat:C1 OR ... OR cat:Cn" for the first n codes, built from the right
C3_Terms(codes, n) ==
    IF n = 0 THEN ""
    ELSE C3_Terms(codes, n - 1) \o (IF n > 1 THEN " OR " ELSE "") \o "cat:" \o codes[n]

C3_Expected(text, codes) == "(" \o C3_Terms(codes, Len(codes)) \o ") AND all:" \o text

(* C3: for every text and non-empty list of category codes, catalog codes
   or not, build_arxiv_query returns "(cat:C1 OR ... OR cat:Cn) AND all:text"
   with one term per code in the order given, and that is the expression of
   the search the endpoint issues. *)
C3_CategoryQuery ==
    /\ build_arxiv_query("x", <<"cs.LG", "cs.AI">>) = "(cat:cs.LG OR cat:cs.AI) AND all:x"
    /\ (pc # "idle" /\ cat # <<>>) => build_arxiv_query(query, cat) = C3_Expected(query, cat)
    /\ (Searched /\ cat # <<>>) => searches[1].query = C3_Expected(query, cat)

C3_Witness ==
    /\ Searched
    /\ cat = <<"zz.XX", "zz.XX">>
    /\ query = "x<"
    /\ searches[1].query = "(cat:zz.XX OR cat:zz.XX) AND all:x<"

(* C4 as claimed: with no categories, the expression sent upstream is the
   query with leading and trailing whitespace removed. Violated. *)
C4_TrimmedWhenNoCategories ==
    (Searched /\ cat = <<>>) => searches[1].query = strip(query)

(* C4 as amended: with no categories, build_arxiv_query returns the text
   as given, whitespace included, and that is the expression sent upstream. *)
C4_UnchangedWhenNoCategories ==
    /\ (pc # "idle" /\ cat = <<>>) => build_arxiv_query(query, cat) = query
    /\ (Searched /\ cat = <<>>) => searches[1].query = query

C4_Witness ==
    /\ Searched
    /\ cat = <<>>
    /\ query = " x"
    /\ searches[1].query = " x"
    /\ strip(query) = "x"

RECURSIVE C5_Leading(_, _)
\* the first n names, each followed by ", "
C5_Leading(names, n) ==
    IF n = 0 THEN "" ELSE C5_Leading(names, n - 1) \o names[n] \o ", "

C5_Display(names) ==
    LET N == Len(names)
    IN  IF N = 0 THEN ""
        ELSE IF N = 1 THEN names[1]
        ELSE C5_Leading(names, N - 2) \o names[N - 1] \o " & " \o names[N]

(* C5: a record with N > 1 authors is displayed with N-1 entries, the first
   N-2 names unchanged and then "a(N-1) & aN", joined with ", "; one author
   is displayed unchanged and no author as the empty string. *)
C5_AuthorsCollapsed ==
    /\ join(", ", collapse_authors(<<"A", "B", "C">>)) = "A, B & C"
    /\ Searched =>
          \A i \in 1..Len(upstream.avail) :
              upstream.avail[i].authors # None =>
                  LET names == upstream.avail[i].authors[1]
                  IN  Len(collapse_authors(names)) =
                          IF Len(names) > 1 THEN Len(names) - 1 ELSE Len(names)
    /\ Returned =>
          \A k \in 1..Len(Cards) :
              Cards[k].Authors = C5_Display(RawOf(Cards[k]).authors[1])

C5_Witness ==
    /\ Returned
    /\ \E k \in 1..Len(Cards) :
          /\ RawOf(Cards[k]).authors = Some(<<"A", "B", "C">>)
          /\ Cards[k].Authors = "A, B & C"
    /\ \E k \in 1..Len(Cards) :
          /\ RawOf(Cards[k]).authors = Some(<<>>)
          /\ Cards[k].Authors = ""
    /\ \E k \in 1..Len(Cards) :
          /\ RawOf(Cards[k]).authors = Some(<<"A">>)
          /\ Cards[k].Authors = "A"

(* C6: when every record of the result stream is well formed and has a
   publication timestamp, the papers returned are those records, each once,
   with timestamps that never increase from one paper to the next. *)
C6_NewestFirst ==
    (Searched /\ ~UpstreamFailed
       /\ \A i \in 1..Len(Yielded) : WellFormed(Yielded[i]) /\ Dated(Yielded[i])) =>
        /\ response.kind = "returned"
        /\ Len(Cards) = Len(Yielded)
        /\ {RankOf(Cards[k]) : k \in 1..Len(Cards)} = 1..Len(Yielded)
        /\ \A k \in 1..(Len(Cards) - 1) :
              ~datetime_lt(RawOf(Cards[k]).published[1], RawOf(Cards[k + 1]).published[1])

C6_Witness ==
    /\ Returned
    /\ Len(Cards) = 3
    /\ upstream.avail[1].published = Some(Datetime(2024, 1, 1, 0))
    /\ upstream.avail[2].published = Some(Datetime(2023, 3, 3, 12))
    /\ upstream.avail[3].published = Some(Datetime(2024, 6, 1, 0))
    /\ <<RankOf(Cards[1]), RankOf(Cards[2]), RankOf(Cards[3])>> = <<3, 1, 2>>
    /\ Cards[1].Published = "June 01, 2024"

(* C7: a record without a publication date is given publishedDate
   "Unknown" and normalization does not raise, also when it comes with
   records that have dates. The code does not do this: the statement below
   is violated. *)
C7_MissingDateIsUnknown ==
    (Searched /\ ~UpstreamFailed /\ \A i \in 1..Len(Yielded) : WellFormed(Yielded[i])) =>
        /\ response.kind = "returned"
        /\ \A k \in 1..Len(Cards) :
              ~Dated(RawOf(Cards[k])) => Cards[k].Published = "Unknown"

(* C8 as claimed: every request with a non-empty query issues exactly one
   search, for the Query Builder's expression, at most 50 results, by
   relevance, descending, and no more than 50 papers are rendered.
   Violated. *)
C8_OneSearchPerNonEmptyQuery ==
    (Done /\ query # "") =>
        /\ Len(searches) = 1
        /\ searches[1].query = build_arxiv_query(query, cat)
        /\ searches[1].max_results <= 50
        /\ searches[1].sort_by = "relevance"
        /\ searches[1].sort_order = "descending"
        /\ Returned => Len(Cards) <= 50

(* C8 as amended: every request whose query is non-empty after trimming
   whitespace issues exactly one such search and renders no more than 50
   papers; a query of whitespace only issues none. *)
C8_OneSearchPerNonBlankQuery ==
    /\ (Done /\ strip(query) # "") =>
          /\ Len(searches) = 1
          /\ searches[1].query = build_arxiv_query(query, cat)
          /\ searches[1].max_results <= 50
          /\ searches[1].sort_by = "relevance"
          /\ searches[1].sort_order = "descending"
          /\ Returned => Len(Cards) <= 50
    /\ (Done /\ strip(query) = "") => searches = <<>>

C8_Witness ==
    /\ Returned
    /\ strip(query) # ""
    /\ Len(searches) = 1
    /\ Len(upstream.avail) > 50
    /\ Len(Cards) = 50

(* C9: a record with a missing title, abstract, author list or date is
   given the field's default and is still among the papers returned; it
   neither aborts the request nor is dropped. The code does not do this:
   the statement below is violated. *)
C9_MalformedRecordKept ==
    (Searched /\ ~UpstreamFailed) =>
        /\ response.kind = "returned"
        /\ Len(Cards) = Len(Yielded)
        /\ \A k \in 1..Len(Cards) :
              LET raw == RawOf(Cards[k])
              IN  /\ raw.title = None => Cards[k].Title = "No title"
                  /\ raw.summary = None => Cards[k].Abstract = "No abstract available"
                  /\ raw.authors = None => Cards[k].Authors = "Unknown"
                  /\ raw.published = None => Cards[k].Published = "Unknown"

(* C10: no request changes the catalog, and a request answers as an earlier
   request with the same query, cat values and upstream behaviour did,
   whatever was served in between. *)
C10_RequestsIndependent ==
    /\ ARXIV_CATEGORIES = CATALOG
    /\ (Done /\ remembered.set /\ remembered.query = query /\ remembered.cat = cat
          /\ remembered.upstream = upstream) =>
            remembered.response = response

C10_Witness ==
    /\ Returned
    /\ remembered.set
    /\ remembered.query = query
    /\ remembered.cat = cat
    /\ remembered.upstream = upstream
    /\ query = "x"
    /\ cat = <<"zz.XX">>
    /\ Len(Cards) = 1


====
